---------------------------- MODULE Spec2Model ----------------------------
(***************************************************************************)
(* A model of riscemu's CPU (src/riscemu/CPU.py): the fetch / advance /    *)
(* dispatch loop of CPU.__run, the recoverable-fault boundary around it,   *)
(* and the per-mnemonic handlers CPU.__instruction_*.                      *)
(*                                                                         *)
(* The collaborators the CPU calls but that live outside CPU.py (MMU,      *)
(* Registers, the helpers to_signed / to_unsigned / ASSERT_LEN / ...,      *)
(* SyscallInterface, launch_debug_session, the exception classes) are      *)
(* modelled from their description in the specification.                   *)
(***************************************************************************)
EXTENDS Integers, Sequences, FiniteSets, TLC

VARIABLES
    at,             \* position of the control flow inside CPU (see Positions)
    pc,             \* CPU.pc
    cycle,          \* CPU.cycle
    exit,           \* CPU.exit
    exit_code,      \* CPU.exit_code
    conf,           \* CPU.conf  (the RunConfig captured at construction)
    cls,            \* vars(CPU): the attribute names of the class CPU
    regs,           \* CPU.regs  (the Registers collaborator's storage)
    ins,            \* the local variable `ins` of CPU.__run
    ex,             \* the exception in flight / bound by `except ... as ex`
    le,             \* the LoadedExecutable returned by CPU.load
    mmu,            \* CPU.mmu   (the MMU collaborator: loaded text, data, read log)
    stdout,         \* the lines printed by CPU.__run
    debug_sessions  \* how many times launch_debug_session has been called

vars == <<at, pc, cycle, exit, exit_code, conf, cls, regs, ins, ex, le, mmu,
          stdout, debug_sessions>>

----------------------------------------------------------------------------
(* Bounds of the model.                                                    *)

\* The loop body is entered at most MaxCycle times in a run.
MaxCycle == 4

\* The loaded program occupies the instruction addresses 1 .. CodeTop.
CodeTop == 3

----------------------------------------------------------------------------
(* Machine words.  A register holds a signed two's-complement word.        *)

MaxInt == 2147483647

MinInt == -2147483647 - 1

(* Python integers are unbounded.  Every intermediate value the handlers   *)
(* compute from two words (a sum, a difference, a left shift by at most    *)
(* 31, a bitwise combination) fits in 64 bits, so a Python integer is      *)
(* represented exactly by its 64-bit two's-complement value, held as four  *)
(* 16-bit limbs, the least significant first.                              *)
Limb == 65536

Limbs == 4

\* The Python integer of a word-sized number v.
PyInt(v) ==
    LET s == IF v < 0 THEN Limb - 1 ELSE 0
    IN  <<v % Limb, (v \div Limb) % Limb, s, s>>

\* Python's  x + y
PyAdd(x, y) ==
    LET s1 == x[1] + y[1]
        s2 == x[2] + y[2] + (s1 \div Limb)
        s3 == x[3] + y[3] + (s2 \div Limb)
        s4 == x[4] + y[4] + (s3 \div Limb)
    IN  <<s1 % Limb, s2 % Limb, s3 % Limb, s4 % Limb>>

\* Python's  -y  (two's complement: invert and add one)
PyNeg(y) ==
    PyAdd([k \in 1 .. Limbs |-> Limb - 1 - y[k]], PyInt(1))

\* Python's  x - y
PySub(x, y) == PyAdd(x, PyNeg(y))

\* helpers.to_signed: the low word of a Python integer read as signed.
to_signed(x) ==
    (IF x[2] >= Limb \div 2 THEN x[2] - Limb ELSE x[2]) * Limb + x[1]

\* helpers.to_unsigned: the low word of a Python integer read as unsigned.
to_unsigned(x) == <<x[1], x[2], 0, 0>>

\* Python's  x < y  on two non-negative Python integers.
RECURSIVE PyLessFrom(_, _, _)
PyLessFrom(x, y, n) ==
    IF n = 0 THEN FALSE
    ELSE IF x[n] # y[n] THEN x[n] < y[n]
    ELSE PyLessFrom(x, y, n - 1)

PyLess(x, y) == PyLessFrom(x, y, Limbs)

\* Bit by bit on two limbs: f[<<bit, bit>>] is the bit of the result.
RECURSIVE LimbBitwise(_, _, _, _)
LimbBitwise(f, a, b, n) ==
    IF n = 0 THEN 0
    ELSE f[<<a % 2, b % 2>>] + 2 * LimbBitwise(f, a \div 2, b \div 2, n - 1)

PyBitwise(f, x, y) == [k \in 1 .. Limbs |-> LimbBitwise(f, x[k], y[k], 16)]

\* Python's  x & y,  x | y,  x ^ y
PyAnd(x, y) == PyBitwise([p \in {0, 1} \X {0, 1} |-> p[1] * p[2]], x, y)

PyOr(x, y) == PyBitwise([p \in {0, 1} \X {0, 1} |-> p[1] + p[2] - p[1] * p[2]], x, y)

PyXor(x, y) == PyBitwise([p \in {0, 1} \X {0, 1} |-> (p[1] + p[2]) % 2], x, y)

\* Limb k of x; below the first limb zeros, above the last the sign.
LimbAt(x, k) ==
    IF k < 1 THEN 0
    ELSE IF k > Limbs THEN (IF x[Limbs] >= Limb \div 2 THEN Limb - 1 ELSE 0)
    ELSE x[k]

\* Python's  x << s  and  x >> s  (0 <= s; >> keeps the sign)
PyShl(x, s) ==
    LET q == s \div 16
        r == s % 16
    IN  [k \in 1 .. Limbs |->
            ((LimbAt(x, k - q) * (2 ^ r)) % Limb)
            + (IF r = 0 THEN 0 ELSE LimbAt(x, k - q - 1) \div (2 ^ (16 - r)))]

PyShr(x, s) ==
    LET q == s \div 16
        r == s % 16
    IN  [k \in 1 .. Limbs |->
            (LimbAt(x, k + q) \div (2 ^ r))
            + (IF r = 0 THEN 0 ELSE (LimbAt(x, k + q + 1) * (2 ^ (16 - r))) % Limb)]

\* Python's  v & 0b11111  as a number
Low5(v) == PyAnd(PyInt(v), PyInt(31))[1]

----------------------------------------------------------------------------
(* Decoded instructions (LoadedInstruction).  An operand is a register     *)
(* reference, an immediate, or an  imm(reg)  memory operand.               *)

R(r) == [k |-> "reg", r |-> r, i |-> 0]

I(i) == [k |-> "imm", r |-> "", i |-> i]

M(i, r) == [k |-> "mem", r |-> r, i |-> i]

Ins(name, args) == [name |-> name, args |-> args]

\* `ins = None` before the first fetch
None == Ins("None", <<>>)

\* LoadedInstruction.get_reg(n), get_imm(n), get_imm_reg(n); n counts from 0
get_reg(i, n) == i.args[n + 1].r

get_imm(i, n) == i.args[n + 1].i

get_imm_reg(i, n) == <<i.args[n + 1].i, i.args[n + 1].r>>

----------------------------------------------------------------------------
(* The exceptions.  Those of riscemu's own family (RiscemuBaseException)   *)
(* are the recoverable faults; RuntimeError and TypeError are Python's.    *)

RiscemuBaseException ==
    {"MemoryAccessException", "ParseException", "UnimplementedInstruction",
     "SyscallException"}

\* An exception object: its class, and (its traceback) the address whose
\* fetch or execution raised it and the instruction executing, None for a fetch.
Exception(type, addr, i) == [type |-> type, addr |-> addr, ins |-> i]

NoException == Exception("", 0, None)

----------------------------------------------------------------------------
(* The Registers collaborator.                                             *)

RegNames == {"ra", "sp", "a0", "a7"}

\* Registers.get(reg)
Registers_get(rg, r) == rg[r]

\* Registers.set(reg, val): word-sized signed two's-complement storage
Registers_set(rg, r, val) == [rg EXCEPT ![r] = to_signed(val)]

----------------------------------------------------------------------------
(* The MMU collaborator: the instructions of the loaded program, the       *)
(* mapped data bytes, and a log of the instruction reads it served.        *)

CodeAddrs == 1 .. CodeTop

DataBase == 16

DataSize == 4

DataAddrs == DataBase .. DataBase + DataSize - 1

\* MMU.read_ins(addr) raises a memory fault outside the loaded program
ReadInsFaults(addr) == addr \notin CodeAddrs

\* A Python integer that is the address of a mapped or unmapped byte:
\* beyond the word range nothing is mapped.
PyFits(x) == x[3] = x[4] /\ x[3] = (IF x[2] >= Limb \div 2 THEN Limb - 1 ELSE 0)

\* MMU.read(addr, size) and MMU.write(addr, size, data) raise a memory fault
\* unless all size bytes from addr on are mapped
AccessFaults(addr, size) ==
    \/ ~PyFits(addr)
    \/ to_signed(addr) \notin DataAddrs
    \/ to_signed(addr) + size - 1 \notin DataAddrs

\* MMU.read(addr, size): the bytes, lowest address first
MMU_read(data, addr, size) ==
    [k \in 1 .. size |-> data[to_signed(addr) + k - 1]]

\* MMU.write(addr, size, bytes)
MMU_write(data, addr, size, bytes) ==
    [a \in DOMAIN data |->
        IF a >= to_signed(addr) /\ a < to_signed(addr) + size
        THEN bytes[a - to_signed(addr) + 1] ELSE data[a]]

\* helpers.int_from_bytes(bytes, unsigned): the bytes, lowest address first
\* as the least significant, zero-extended (unsigned) or sign-extended
int_from_bytes(bytes, unsigned) ==
    LET n == Len(bytes)
        byte(k) ==
            IF k <= n THEN bytes[k]
            ELSE IF ~unsigned /\ bytes[n] >= 128 THEN 255 ELSE 0
    IN  [k \in 1 .. Limbs |-> byte(2 * k - 1) + 256 * byte(2 * k)]

\* helpers.int_to_bytes(val, bytes): the low bytes of val, least significant first
int_to_bytes(val, n) ==
    [k \in 1 .. n |-> (val \div (256 ^ (k - 1))) % 256]

----------------------------------------------------------------------------
(* The SyscallInterface and the Debug Session collaborators.               *)

\* What SyscallInterface.handle_syscall may do through its handles on the
\* engine and the registers: end the run with an exit code (cpu.exit,
\* cpu.exit_code), set the exit code only, write a result into a0, or raise.
ExitCodes == {0, 1}

SyscallResults == {0}

SyscallOutcomes ==
    [kind : {"exit"}, value : ExitCodes] \cup
    [kind : {"code"}, value : ExitCodes \ {0}] \cup
    [kind : {"result"}, value : SyscallResults] \cup
    [kind : {"raise"}, value : {0}]

----------------------------------------------------------------------------
(* The positions of the control flow.                                      *)
(*   "constructed"  after CPU.__init__                                     *)
(*   "loaded"       after CPU.load                                         *)
(*   "run"          run_loaded has seeded pc, sp and a0 and calls __run    *)
(*   "while"        at the loop test  `while not self.exit`                *)
(*   "fetch"        before  ins = self.mmu.read_ins(self.pc)               *)
(*   "advance"      before  self.pc += 1                                   *)
(*   "execute"      before  self.__run_instruction(ins)                    *)
(*   "except"       in the  except RiscemuBaseException  clause            *)
(*   "exited"       before the final print of __run                        *)
(*   "done"         __run has returned after the final print               *)
(*   "returned"     __run has returned False (pc <= 0)                     *)
(*   "crashed"      an exception has propagated out of __run               *)
Positions ==
    {"constructed", "loaded", "run", "while", "fetch", "advance", "execute",
     "except", "exited", "done", "returned", "crashed"}

----------------------------------------------------------------------------
(* The lines __run prints.                                                 *)

\* line 56: "[CPU] excpetion caught at 0x{:08X}: {}:".format(self.pc-1, ins)
CaughtLine(p, i) == [kind |-> "caught", pc |-> p, ins |-> i, text |-> "", code |-> 0]

\* line 57: ex.message()
MessageLine(e) == [kind |-> "message", pc |-> 0, ins |-> None, text |-> e.type, code |-> 0]

\* line 63: "Program exited with code {}".format(self.exit_code)
ExitedLine(c) == [kind |-> "exited", pc |-> 0, ins |-> None, text |-> "", code |-> c]

----------------------------------------------------------------------------
(* The programs the model runs.  The decoder and the loader are outside    *)
(* the CPU; the decoded instructions they hand over are drawn from the     *)
(* sets below.  Operands have the types the handler of the mnemonic reads  *)
(* (the decoder's job); the operand COUNT is right or wrong.               *)

OperandRegs == {"ra", "a0"}

SourcePairs == {<<"ra", "a0">>, <<"a0", "ra">>, <<"a0", "a0">>}

Immediates == {-1, 1, MaxInt}

ShiftAmounts == {1, 31, 33}

Offsets == {0, 1}

Targets == {0, 1, CodeTop}

\* A register reference given by index instead of by name.
RX(r) == [k |-> "regidx", r |-> r, i |-> 0]

RRR == {<<R(a), R(p[1]), R(p[2])>> : a \in OperandRegs, p \in SourcePairs}

RRI(S) == {<<R(a), R(b), I(i)>> : a \in OperandRegs, b \in OperandRegs, i \in S}

XXI(S) == {<<RX(p[1]), RX(p[2]), I(i)>> : p \in SourcePairs, i \in S}

\* rd, base, offset  and  rd, offset(base)  with the heap pointer as the base
RBI(S) == {<<R(a), R("a0"), I(i)>> : a \in OperandRegs, i \in S}

RM(S) == {<<R(a), M(i, "a0")>> : a \in OperandRegs, i \in S}

RI(S) == {<<R(a), I(i)>> : a \in OperandRegs, i \in S}

I1(S) == {<<I(i)>> : i \in S}

\* An operand list of each length, to give a handler a count it does not accept.
OfLength(n) ==
    CASE n = 0 -> {<<>>}
      [] n = 1 -> {<<R("a0")>>}
      [] n = 2 -> {<<R("a0"), I(1)>>}
      [] n = 3 -> {<<R("a0"), R("ra"), I(1)>>}
      [] n = 4 -> {<<R("a0"), R("ra"), I(1), I(1)>>}

\* The counts next to an accepted one that are not accepted.
WrongCounts(accepted) ==
    UNION {OfLength(n) : n \in {m \in 0 .. 4 : m \notin accepted /\ (m + 1 \in accepted \/ m - 1 \in accepted)}}

Program(names, args) == {Ins(n, a) : n \in names, a \in args}

BranchNames == {"beq", "bne", "blt", "bge"}

UnsignedBranchNames == {"bltu", "bgeu"}

ControlText ==
    Program(BranchNames, RRI(Targets) \cup WrongCounts({3})) \cup
    Program(UnsignedBranchNames,
            XXI(Targets) \cup {<<R("a0"), R("ra"), I(t)>> : t \in Targets} \cup WrongCounts({3})) \cup
    Program({"j"}, I1(Targets) \cup WrongCounts({1})) \cup
    Program({"jal"}, I1(Targets) \cup RI(Targets) \cup WrongCounts({1, 2})) \cup
    Program({"jalr"}, RI(Targets) \cup WrongCounts({2})) \cup
    Program({"ret"}, {<<>>} \cup WrongCounts({0})) \cup
    Program({"addi"}, {<<R("ra"), R("ra"), I(-1)>>}) \cup
    Program({"nop"}, {<<>>})

ArithText ==
    Program({"add", "sub"}, RRR \cup WrongCounts({3})) \cup
    Program({"addi"}, RRI(Immediates) \cup WrongCounts({3}))

CompareText ==
    Program({"slt", "sltu"}, RRR \cup WrongCounts({3})) \cup
    Program({"addi"}, RRI({-1}))

ShiftText ==
    Program({"sll", "srl", "sra"}, RRR \cup WrongCounts({3})) \cup
    Program({"slli", "srli", "srai"}, RRI(ShiftAmounts) \cup WrongCounts({3})) \cup
    Program({"addi"}, RRI({-1}))

LogicText ==
    Program({"xor", "or", "and"}, RRR \cup WrongCounts({3})) \cup
    Program({"addi"}, RRI({-1}))

LoadText ==
    Program({"lb", "lh", "lw", "lbu", "lhu"},
            RBI(Offsets) \cup RM({0}) \cup WrongCounts({2, 3}) \cup OfLength(2))

StoreText ==
    Program({"sb", "sh", "sw"},
            RBI(Offsets) \cup RM({0}) \cup WrongCounts({2, 3}) \cup OfLength(2)) \cup
    Program({"lw"}, {<<R("ra"), M(0, "a0")>>})

UnimplementedNames == {"lui", "auipc", "xori", "ori", "andi", "slti", "sltiu"}

\* A mnemonic the CPU has no handler for.
UnknownNames == {"fence"}

SystemText ==
    Program({"ecall", "scall", "ebreak", "sbreak", "nop"}, {<<>>} \cup WrongCounts({0})) \cup
    Program(UnimplementedNames, OfLength(0) \cup OfLength(2) \cup OfLength(3)) \cup
    Program(UnknownNames, OfLength(0) \cup OfLength(3)) \cup
    Program({"addi"}, {<<R("a0"), R("a0"), I(1)>>})

\* The data bytes an executable maps: every byte the same value.
DataBytes == {127, 128}

DataImages == {[a \in DataAddrs |-> b] : b \in DataBytes}

EntryPoints == {-1, 0, 1, CodeTop + 1}

\* (stack pointer, heap pointer): the heap is the mapped data
StackHeaps == {<<DataBase + DataSize, DataBase>>}

\* The instructions of a text, which an executable and the MMU that has
\* loaded it name; no instructions before anything is loaded.
Text(name) ==
    CASE name = "ControlText" -> ControlText
      [] name = "ArithText" -> ArithText
      [] name = "CompareText" -> CompareText
      [] name = "ShiftText" -> ShiftText
      [] name = "LogicText" -> LogicText
      [] name = "LoadText" -> LoadText
      [] name = "StoreText" -> StoreText
      [] name = "SystemText" -> SystemText
      [] OTHER -> {}

Executable(text, images) ==
    [run_ptr : EntryPoints, stack_heap : StackHeaps, text : {text}, data : images]

Executables ==
    Executable("ControlText", {[a \in DataAddrs |-> 0]}) \cup
    Executable("ArithText", {[a \in DataAddrs |-> 0]}) \cup
    Executable("CompareText", {[a \in DataAddrs |-> 0]}) \cup
    Executable("ShiftText", {[a \in DataAddrs |-> 0]}) \cup
    Executable("LogicText", {[a \in DataAddrs |-> 0]}) \cup
    Executable("LoadText", DataImages) \cup
    Executable("StoreText", {[a \in DataAddrs |-> 0]}) \cup
    Executable("SystemText", {[a \in DataAddrs |-> 0]})

NoExecutable == [run_ptr |-> 0, stack_heap |-> <<0, 0>>]

----------------------------------------------------------------------------
(* Construction: CPU.__init__                                              *)

(* The class CPU as Python sees it: its namespace, and the two lookups the  *)
(* code makes in it.                                                        *)

\* The mnemonics <name> with a method  def __instruction_<name>  in the
\* body of class CPU.
Handlers ==
    {"lb", "lh", "lw", "lbu", "lhu", "sb", "sh", "sw",
     "sll", "slli", "srl", "srli", "sra", "srai",
     "add", "addi", "sub", "lui", "auipc",
     "xor", "xori", "or", "ori", "and", "andi",
     "slt", "slti", "sltu", "sltiu",
     "beq", "bne", "blt", "bge", "bltu", "bgeu",
     "j", "jal", "jalr", "ret",
     "ecall", "ebreak", "scall", "sbreak", "nop"}

\* The other methods defined in the body of class CPU.
OtherMethods ==
    {"__init__", "load", "run_loaded", "__run", "__run_instruction",
     "__parse_mem_ins", "all_instructions", "__repr__"}

\* Python's private name mangling inside class CPU: __x becomes _CPU__x,
\* a name ending in two underscores is kept.
Mangle(name) ==
    IF Len(name) >= 2 /\ SubSeq(name, 1, 2) = "__"
       /\ ~(Len(name) >= 4 /\ SubSeq(name, Len(name) - 1, Len(name)) = "__")
    THEN "_CPU" \o name
    ELSE name

\* vars(CPU) of the class as written.
CPU_vars ==
    {Mangle(m) : m \in OtherMethods} \cup {Mangle("__instruction_" \o n) : n \in Handlers}

\* hasattr(self, name): the instance attributes set by __init__, or an
\* attribute of the class.
hasattr(name) ==
    \/ name \in {"pc", "cycle", "exit", "exit_code", "conf", "mmu", "regs", "syscall_int"}
    \/ name \in cls

\* str.startswith
startswith(str, prefix) ==
    /\ Len(str) >= Len(prefix)
    /\ SubSeq(str, 1, Len(prefix)) = prefix

----------------------------------------------------------------------------
Init ==
    /\ at = "constructed"
    /\ pc = 0
    /\ cycle = 0
    /\ exit = FALSE
    /\ exit_code = 0
    /\ conf \in [debug_on_exception : BOOLEAN]
    /\ cls = CPU_vars
    /\ regs = [r \in RegNames |-> 0]
    /\ ins = None
    /\ ex = NoException
    /\ le = NoExecutable
    /\ mmu = [text |-> "", data |-> [a \in DataAddrs |-> 0], fetched |-> 0, ins_addr |-> 0]
    /\ stdout = <<>>
    /\ debug_sessions = 0

\* CPU.load(e): the MMU loads the executable and returns the LoadedExecutable
load ==
    /\ at = "constructed"
    /\ \E e \in Executables :
        /\ mmu' = [mmu EXCEPT !.text = e.text, !.data = e.data]
        /\ le' = [run_ptr |-> e.run_ptr, stack_heap |-> e.stack_heap]
    /\ at' = "loaded"
    /\ UNCHANGED <<pc, cycle, exit, exit_code, conf, cls, regs, ins, ex, stdout, debug_sessions>>

\* CPU.run_loaded(le), up to its call of __run
run_loaded ==
    /\ at = "loaded"
    /\ pc' = le.run_ptr
    /\ LET sp == le.stack_heap[1]
           hp == le.stack_heap[2]
       IN  regs' = Registers_set(Registers_set(regs, "sp", PyInt(sp)), "a0", PyInt(hp))
    /\ at' = "run"
    /\ UNCHANGED <<cycle, exit, exit_code, conf, cls, ins, ex, le, mmu, stdout, debug_sessions>>

\* __run without the entry check of line 46.
run_entry_unchecked ==
    /\ at = "run"
    /\ at' = "while"
    /\ ins' = None
    /\ UNCHANGED <<pc, cycle, exit, exit_code, conf, cls, regs, ex, le, mmu, stdout, debug_sessions>>

\* CPU.__run, lines 46-48: the entry check and `ins = None`
run_entry ==
    /\ at = "run"
    /\ IF pc <= 0
       THEN at' = "returned" /\ UNCHANGED ins
       ELSE at' = "while" /\ ins' = None
    /\ UNCHANGED <<pc, cycle, exit, exit_code, conf, cls, regs, ex, le, mmu, stdout, debug_sessions>>

\* A loop that never looks at the exit flag:  while True.
run_while_ignores_exit ==
    /\ at = "while"
    /\ cycle < MaxCycle
    /\ cycle' = cycle + 1
    /\ at' = "fetch"
    /\ UNCHANGED <<pc, exit, exit_code, conf, cls, regs, ins, ex, le, mmu, stdout, debug_sessions>>

\* A loop that counts only the instructions it has executed: no `cycle += 1`
\* at the head of the body.
run_while_uncounted ==
    /\ at = "while"
    /\ IF ~exit
       THEN /\ cycle < MaxCycle
            /\ at' = "fetch"
       ELSE /\ at' = "exited"
    /\ UNCHANGED <<pc, cycle, exit, exit_code, conf, cls, regs, ins, ex, le, mmu, stdout, debug_sessions>>

\* CPU.__run, lines 50-51: the loop test and `self.cycle += 1`
run_while ==
    /\ at = "while"
    /\ IF ~exit
       THEN /\ cycle < MaxCycle
            /\ cycle' = cycle + 1
            /\ at' = "fetch"
       ELSE /\ at' = "exited"
            /\ UNCHANGED cycle
    /\ UNCHANGED <<pc, exit, exit_code, conf, cls, regs, ins, ex, le, mmu, stdout, debug_sessions>>

\* CPU.__run, line 52: ins = self.mmu.read_ins(self.pc); a memory fault
\* raised by the read is caught by line 55
run_fetch ==
    /\ at = "fetch"
    /\ IF ReadInsFaults(pc)
       THEN /\ ex' = Exception("MemoryAccessException", pc, None)
            /\ at' = "except"
            /\ UNCHANGED <<ins, mmu>>
       ELSE /\ \E i \in Text(mmu.text) : ins' = i
            /\ mmu' = [mmu EXCEPT !.fetched = @ + 1, !.ins_addr = pc]
            /\ at' = "advance"
            /\ UNCHANGED ex
    /\ UNCHANGED <<pc, cycle, exit, exit_code, conf, cls, regs, le, stdout, debug_sessions>>

\* A loop that runs the instruction before advancing pc.
run_advance_late ==
    /\ at = "advance"
    /\ at' = "execute"
    /\ UNCHANGED <<pc, cycle, exit, exit_code, conf, cls, regs, ins, ex, le, mmu, stdout, debug_sessions>>

\* CPU.__run, line 53: self.pc += 1
run_advance ==
    /\ at = "advance"
    /\ pc' = pc + 1
    /\ at' = "execute"
    /\ UNCHANGED <<cycle, exit, exit_code, conf, cls, regs, ins, ex, le, mmu, stdout, debug_sessions>>

\* CPU.__run, lines 55-61: the except clause
run_except ==
    /\ at = "except"
    /\ stdout' = stdout \o <<CaughtLine(pc - 1, ins), MessageLine(ex)>>
    /\ debug_sessions' = IF conf.debug_on_exception THEN debug_sessions + 1 ELSE debug_sessions
    /\ at' = "exited"
    /\ UNCHANGED <<pc, cycle, exit, exit_code, conf, cls, regs, ins, ex, le, mmu>>

\* CPU.__run, line 63: the final print
run_exited ==
    /\ at = "exited"
    /\ stdout' = Append(stdout, ExitedLine(exit_code))
    /\ at' = "done"
    /\ UNCHANGED <<pc, cycle, exit, exit_code, conf, cls, regs, ins, ex, le, mmu, debug_sessions>>

----------------------------------------------------------------------------
(* Dispatch and the ways a handler ends.                                   *)

\* CPU.__run_instruction, lines 66-68: the handler of `name` is invoked
Dispatch(name) ==
    /\ at = "execute"
    /\ ins.name = name
    /\ hasattr("_CPU__instruction_" \o ins.name)

\* A loop without the except clause: every exception leaves __run.
Raise_uncaught(type) ==
    /\ ex' = Exception(type, mmu.ins_addr, ins)
    /\ at' = "crashed"
    /\ UNCHANGED <<pc, cycle, exit, exit_code, conf, cls, regs, ins, le, mmu, stdout, debug_sessions>>

\* An exception raised while the fetched instruction executes: one of the
\* RiscemuBaseException family is caught by line 55, any other leaves __run.
Raise(type) ==
    /\ ex' = Exception(type, mmu.ins_addr, ins)
    /\ at' = IF type \in RiscemuBaseException THEN "except" ELSE "crashed"
    /\ UNCHANGED <<pc, cycle, exit, exit_code, conf, cls, regs, ins, le, mmu, stdout, debug_sessions>>

\* The handler returns, leaving pc, the registers and the data memory as given.
Return(new_pc, new_regs, new_data) ==
    /\ pc' = new_pc
    /\ regs' = new_regs
    /\ mmu' = [mmu EXCEPT !.data = new_data]
    /\ at' = "while"
    /\ UNCHANGED <<cycle, exit, exit_code, conf, cls, ins, ex, le, stdout, debug_sessions>>

\* helpers.ASSERT_LEN(a1, size) passes
ASSERT_LEN(a1, size) == Len(a1) = size

\* An unknown mnemonic reported as a fault of riscemu's own family.
run_instruction_unknown_caught ==
    /\ at = "execute"
    /\ ~hasattr("_CPU__instruction_" \o ins.name)
    /\ Raise("ParseException")

\* CPU.__run_instruction, lines 69-71: no handler
run_instruction_unknown ==
    /\ at = "execute"
    /\ ~hasattr("_CPU__instruction_" \o ins.name)
    /\ Raise("RuntimeError")

----------------------------------------------------------------------------
(* Memory access: lb lh lw lbu lhu sb sh sw                                *)

\* CPU.__parse_mem_ins raises: neither 3 operands, nor 2 with an imm(reg)
parse_mem_ins_raises(i) ==
    /\ Len(i.args) # 3
    /\ \/ ~ASSERT_LEN(i.args, 2)
       \/ i.args[2].k # "mem"

\* CPU.__parse_mem_ins returns (rd, regs.get(rs1) + imm)
parse_mem_ins(i) ==
    IF Len(i.args) = 3
    THEN LET rs1 == get_reg(i, 1)
             imm == get_imm(i, 2)
         IN  <<get_reg(i, 0), PyAdd(PyInt(Registers_get(regs, rs1)), PyInt(imm))>>
    ELSE LET imm == get_imm_reg(i, 1)[1]
             rs1 == get_imm_reg(i, 1)[2]
         IN  <<get_reg(i, 0), PyAdd(PyInt(Registers_get(regs, rs1)), PyInt(imm))>>

\* lb that zero-extends the byte.
instruction_lb_unsigned ==
    /\ Dispatch("lb")
    /\ IF parse_mem_ins_raises(ins) THEN Raise("ParseException")
       ELSE LET rd == parse_mem_ins(ins)[1]
                addr == parse_mem_ins(ins)[2]
            IN  IF AccessFaults(addr, 1) THEN Raise("MemoryAccessException")
                ELSE Return(pc,
                            Registers_set(regs, rd,
                                int_from_bytes(MMU_read(mmu.data, addr, 1), TRUE)),
                            mmu.data)

instruction_lb ==
    /\ Dispatch("lb")
    /\ IF parse_mem_ins_raises(ins) THEN Raise("ParseException")
       ELSE LET rd == parse_mem_ins(ins)[1]
                addr == parse_mem_ins(ins)[2]
            IN  IF AccessFaults(addr, 1) THEN Raise("MemoryAccessException")
                ELSE Return(pc,
                            Registers_set(regs, rd,
                                int_from_bytes(MMU_read(mmu.data, addr, 1), FALSE)),
                            mmu.data)

instruction_lh ==
    /\ Dispatch("lh")
    /\ IF parse_mem_ins_raises(ins) THEN Raise("ParseException")
       ELSE LET rd == parse_mem_ins(ins)[1]
                addr == parse_mem_ins(ins)[2]
            IN  IF AccessFaults(addr, 2) THEN Raise("MemoryAccessException")
                ELSE Return(pc,
                            Registers_set(regs, rd,
                                int_from_bytes(MMU_read(mmu.data, addr, 2), FALSE)),
                            mmu.data)

instruction_lw ==
    /\ Dispatch("lw")
    /\ IF parse_mem_ins_raises(ins) THEN Raise("ParseException")
       ELSE LET rd == parse_mem_ins(ins)[1]
                addr == parse_mem_ins(ins)[2]
            IN  IF AccessFaults(addr, 4) THEN Raise("MemoryAccessException")
                ELSE Return(pc,
                            Registers_set(regs, rd,
                                int_from_bytes(MMU_read(mmu.data, addr, 4), FALSE)),
                            mmu.data)

instruction_lbu ==
    /\ Dispatch("lbu")
    /\ IF parse_mem_ins_raises(ins) THEN Raise("ParseException")
       ELSE LET rd == parse_mem_ins(ins)[1]
                addr == parse_mem_ins(ins)[2]
            IN  IF AccessFaults(addr, 1) THEN Raise("MemoryAccessException")
                ELSE Return(pc,
                            Registers_set(regs, rd,
                                int_from_bytes(MMU_read(mmu.data, addr, 1), TRUE)),
                            mmu.data)

instruction_lhu ==
    /\ Dispatch("lhu")
    /\ IF parse_mem_ins_raises(ins) THEN Raise("ParseException")
       ELSE LET rd == parse_mem_ins(ins)[1]
                addr == parse_mem_ins(ins)[2]
            IN  IF AccessFaults(addr, 2) THEN Raise("MemoryAccessException")
                ELSE Return(pc,
                            Registers_set(regs, rd,
                                int_from_bytes(MMU_read(mmu.data, addr, 2), TRUE)),
                            mmu.data)

instruction_sb ==
    /\ Dispatch("sb")
    /\ IF parse_mem_ins_raises(ins) THEN Raise("ParseException")
       ELSE LET rd == parse_mem_ins(ins)[1]
                addr == parse_mem_ins(ins)[2]
            IN  IF AccessFaults(addr, 1) THEN Raise("MemoryAccessException")
                ELSE Return(pc, regs,
                            MMU_write(mmu.data, addr, 1,
                                int_to_bytes(Registers_get(regs, rd), 1)))

instruction_sh ==
    /\ Dispatch("sh")
    /\ IF parse_mem_ins_raises(ins) THEN Raise("ParseException")
       ELSE LET rd == parse_mem_ins(ins)[1]
                addr == parse_mem_ins(ins)[2]
            IN  IF AccessFaults(addr, 2) THEN Raise("MemoryAccessException")
                ELSE Return(pc, regs,
                            MMU_write(mmu.data, addr, 2,
                                int_to_bytes(Registers_get(regs, rd), 2)))

instruction_sw ==
    /\ Dispatch("sw")
    /\ IF parse_mem_ins_raises(ins) THEN Raise("ParseException")
       ELSE LET rd == parse_mem_ins(ins)[1]
                addr == parse_mem_ins(ins)[2]
            IN  IF AccessFaults(addr, 4) THEN Raise("MemoryAccessException")
                ELSE Return(pc, regs,
                            MMU_write(mmu.data, addr, 4,
                                int_to_bytes(Registers_get(regs, rd), 4)))

----------------------------------------------------------------------------
(* Shifts, arithmetic, logic, comparison                                   *)

instruction_sll ==
    /\ Dispatch("sll")
    /\ IF ~ASSERT_LEN(ins.args, 3) THEN Raise("ParseException")
       ELSE LET dst == get_reg(ins, 0)
                src1 == get_reg(ins, 1)
                src2 == get_reg(ins, 2)
            IN  Return(pc,
                       Registers_set(regs, dst,
                           PyInt(to_signed(PyShl(to_unsigned(PyInt(Registers_get(regs, src1))), Low5(Registers_get(regs, src2)))))),
                       mmu.data)

instruction_slli ==
    /\ Dispatch("slli")
    /\ IF ~ASSERT_LEN(ins.args, 3) THEN Raise("ParseException")
       ELSE LET dst == get_reg(ins, 0)
                src1 == get_reg(ins, 1)
                imm == get_imm(ins, 2)
            IN  Return(pc,
                       Registers_set(regs, dst,
                           PyInt(to_signed(PyShl(to_unsigned(PyInt(Registers_get(regs, src1))), Low5(imm))))),
                       mmu.data)

\* srl that shifts the signed value, filling with the sign.
instruction_srl_arithmetic ==
    /\ Dispatch("srl")
    /\ IF ~ASSERT_LEN(ins.args, 3) THEN Raise("ParseException")
       ELSE LET dst == get_reg(ins, 0)
                src1 == get_reg(ins, 1)
                src2 == get_reg(ins, 2)
            IN  Return(pc,
                       Registers_set(regs, dst,
                           PyShr(PyInt(Registers_get(regs, src1)), Low5(Registers_get(regs, src2)))),
                       mmu.data)

instruction_srl ==
    /\ Dispatch("srl")
    /\ IF ~ASSERT_LEN(ins.args, 3) THEN Raise("ParseException")
       ELSE LET dst == get_reg(ins, 0)
                src1 == get_reg(ins, 1)
                src2 == get_reg(ins, 2)
            IN  Return(pc,
                       Registers_set(regs, dst,
                           PyInt(to_signed(PyShr(to_unsigned(PyInt(Registers_get(regs, src1))), Low5(Registers_get(regs, src2)))))),
                       mmu.data)

\* srli that shifts by the whole immediate.
instruction_srli_unmasked ==
    /\ Dispatch("srli")
    /\ IF ~ASSERT_LEN(ins.args, 3) THEN Raise("ParseException")
       ELSE LET dst == get_reg(ins, 0)
                src1 == get_reg(ins, 1)
                imm == get_imm(ins, 2)
            IN  Return(pc,
                       Registers_set(regs, dst,
                           PyInt(to_signed(PyShr(to_unsigned(PyInt(Registers_get(regs, src1))),
                                                 IF imm < 0 THEN 0 ELSE imm)))),
                       mmu.data)

instruction_srli ==
    /\ Dispatch("srli")
    /\ IF ~ASSERT_LEN(ins.args, 3) THEN Raise("ParseException")
       ELSE LET dst == get_reg(ins, 0)
                src1 == get_reg(ins, 1)
                imm == get_imm(ins, 2)
            IN  Return(pc,
                       Registers_set(regs, dst,
                           PyInt(to_signed(PyShr(to_unsigned(PyInt(Registers_get(regs, src1))), Low5(imm))))),
                       mmu.data)

instruction_sra ==
    /\ Dispatch("sra")
    /\ IF ~ASSERT_LEN(ins.args, 3) THEN Raise("ParseException")
       ELSE LET dst == get_reg(ins, 0)
                src1 == get_reg(ins, 1)
                src2 == get_reg(ins, 2)
            IN  Return(pc,
                       Registers_set(regs, dst,
                           PyShr(PyInt(Registers_get(regs, src1)), Low5(Registers_get(regs, src2)))),
                       mmu.data)

instruction_srai ==
    /\ Dispatch("srai")
    /\ IF ~ASSERT_LEN(ins.args, 3) THEN Raise("ParseException")
       ELSE LET dst == get_reg(ins, 0)
                src1 == get_reg(ins, 1)
                imm == get_imm(ins, 2)
            IN  Return(pc,
                       Registers_set(regs, dst,
                           PyShr(PyInt(Registers_get(regs, src1)), Low5(imm))),
                       mmu.data)

instruction_add ==
    /\ Dispatch("add")
    /\ IF ~ASSERT_LEN(ins.args, 3) THEN Raise("ParseException")
       ELSE LET dst == get_reg(ins, 0)
                src1 == get_reg(ins, 1)
                src2 == get_reg(ins, 2)
            IN  Return(pc,
                       Registers_set(regs, dst,
                           PyAdd(PyInt(Registers_get(regs, src1)), PyInt(Registers_get(regs, src2)))),
                       mmu.data)

instruction_addi ==
    /\ Dispatch("addi")
    /\ IF ~ASSERT_LEN(ins.args, 3) THEN Raise("ParseException")
       ELSE LET dst == get_reg(ins, 0)
                src1 == get_reg(ins, 1)
                imm == get_imm(ins, 2)
            IN  Return(pc,
                       Registers_set(regs, dst,
                           PyAdd(PyInt(Registers_get(regs, src1)), PyInt(imm))),
                       mmu.data)

\* sub with its operands exchanged.
instruction_sub_swapped ==
    /\ Dispatch("sub")
    /\ IF ~ASSERT_LEN(ins.args, 3) THEN Raise("ParseException")
       ELSE LET dst == get_reg(ins, 0)
                src1 == get_reg(ins, 1)
                src2 == get_reg(ins, 2)
            IN  Return(pc,
                       Registers_set(regs, dst,
                           PySub(PyInt(Registers_get(regs, src2)), PyInt(Registers_get(regs, src1)))),
                       mmu.data)

instruction_sub ==
    /\ Dispatch("sub")
    /\ IF ~ASSERT_LEN(ins.args, 3) THEN Raise("ParseException")
       ELSE LET dst == get_reg(ins, 0)
                src1 == get_reg(ins, 1)
                src2 == get_reg(ins, 2)
            IN  Return(pc,
                       Registers_set(regs, dst,
                           PySub(PyInt(Registers_get(regs, src1)), PyInt(Registers_get(regs, src2)))),
                       mmu.data)

\* helpers.INS_NOT_IMPLEMENTED(ins) raises the unimplemented-instruction fault
INS_NOT_IMPLEMENTED == Raise("UnimplementedInstruction")

instruction_lui ==
    /\ Dispatch("lui")
    /\ INS_NOT_IMPLEMENTED

instruction_auipc ==
    /\ Dispatch("auipc")
    /\ INS_NOT_IMPLEMENTED

instruction_xor ==
    /\ Dispatch("xor")
    /\ IF ~ASSERT_LEN(ins.args, 3) THEN Raise("ParseException")
       ELSE LET dst == get_reg(ins, 0)
                src1 == get_reg(ins, 1)
                src2 == get_reg(ins, 2)
            IN  Return(pc,
                       Registers_set(regs, dst,
                           PyXor(PyInt(Registers_get(regs, src1)), PyInt(Registers_get(regs, src2)))),
                       mmu.data)

\* xori as a silent no-op.
instruction_xori_noop ==
    /\ Dispatch("xori")
    /\ Return(pc, regs, mmu.data)

instruction_xori ==
    /\ Dispatch("xori")
    /\ INS_NOT_IMPLEMENTED

instruction_or ==
    /\ Dispatch("or")
    /\ IF ~ASSERT_LEN(ins.args, 3) THEN Raise("ParseException")
       ELSE LET dst == get_reg(ins, 0)
                src1 == get_reg(ins, 1)
                src2 == get_reg(ins, 2)
            IN  Return(pc,
                       Registers_set(regs, dst,
                           PyOr(PyInt(Registers_get(regs, src1)), PyInt(Registers_get(regs, src2)))),
                       mmu.data)

instruction_ori ==
    /\ Dispatch("ori")
    /\ INS_NOT_IMPLEMENTED

instruction_and ==
    /\ Dispatch("and")
    /\ IF ~ASSERT_LEN(ins.args, 3) THEN Raise("ParseException")
       ELSE LET dst == get_reg(ins, 0)
                src1 == get_reg(ins, 1)
                src2 == get_reg(ins, 2)
            IN  Return(pc,
                       Registers_set(regs, dst,
                           PyAnd(PyInt(Registers_get(regs, src1)), PyInt(Registers_get(regs, src2)))),
                       mmu.data)

instruction_andi ==
    /\ Dispatch("andi")
    /\ INS_NOT_IMPLEMENTED

instruction_slt ==
    /\ Dispatch("slt")
    /\ IF ~ASSERT_LEN(ins.args, 3) THEN Raise("ParseException")
       ELSE LET dst == get_reg(ins, 0)
                src1 == get_reg(ins, 1)
                src2 == get_reg(ins, 2)
            IN  Return(pc,
                       Registers_set(regs, dst,
                           PyInt(IF Registers_get(regs, src1) < Registers_get(regs, src2) THEN 1 ELSE 0)),
                       mmu.data)

instruction_slti ==
    /\ Dispatch("slti")
    /\ INS_NOT_IMPLEMENTED

\* sltu that compares the signed values.
instruction_sltu_signed ==
    /\ Dispatch("sltu")
    /\ IF ~ASSERT_LEN(ins.args, 3) THEN Raise("ParseException")
       ELSE LET dst == get_reg(ins, 0)
                src1 == get_reg(ins, 1)
                src2 == get_reg(ins, 2)
            IN  Return(pc,
                       Registers_set(regs, dst,
                           PyInt(IF Registers_get(regs, src1) < Registers_get(regs, src2) THEN 1 ELSE 0)),
                       mmu.data)

instruction_sltu ==
    /\ Dispatch("sltu")
    /\ IF ~ASSERT_LEN(ins.args, 3) THEN Raise("ParseException")
       ELSE LET dst == get_reg(ins, 0)
                src1 == get_reg(ins, 1)
                src2 == get_reg(ins, 2)
            IN  Return(pc,
                       Registers_set(regs, dst,
                           PyInt(IF PyLess(to_unsigned(PyInt(Registers_get(regs, src1))), to_unsigned(PyInt(Registers_get(regs, src2)))) THEN 1 ELSE 0)),
                       mmu.data)

instruction_sltiu ==
    /\ Dispatch("sltiu")
    /\ INS_NOT_IMPLEMENTED

----------------------------------------------------------------------------
(* Branches                                                                *)

instruction_beq ==
    /\ Dispatch("beq")
    /\ IF ~ASSERT_LEN(ins.args, 3) THEN Raise("ParseException")
       ELSE LET reg1 == get_reg(ins, 0)
                reg2 == get_reg(ins, 1)
                dest == get_imm(ins, 2)
            IN  IF Registers_get(regs, reg1) = Registers_get(regs, reg2)
                THEN Return(dest, regs, mmu.data)
                ELSE Return(pc, regs, mmu.data)

instruction_bne ==
    /\ Dispatch("bne")
    /\ IF ~ASSERT_LEN(ins.args, 3) THEN Raise("ParseException")
       ELSE LET reg1 == get_reg(ins, 0)
                reg2 == get_reg(ins, 1)
                dest == get_imm(ins, 2)
            IN  IF Registers_get(regs, reg1) # Registers_get(regs, reg2)
                THEN Return(dest, regs, mmu.data)
                ELSE Return(pc, regs, mmu.data)

instruction_blt ==
    /\ Dispatch("blt")
    /\ IF ~ASSERT_LEN(ins.args, 3) THEN Raise("ParseException")
       ELSE LET reg1 == get_reg(ins, 0)
                reg2 == get_reg(ins, 1)
                dest == get_imm(ins, 2)
            IN  IF Registers_get(regs, reg1) < Registers_get(regs, reg2)
                THEN Return(dest, regs, mmu.data)
                ELSE Return(pc, regs, mmu.data)

\* bge that branches on > instead of >=
instruction_bge_strict ==
    /\ Dispatch("bge")
    /\ IF ~ASSERT_LEN(ins.args, 3) THEN Raise("ParseException")
       ELSE LET reg1 == get_reg(ins, 0)
                reg2 == get_reg(ins, 1)
                dest == get_imm(ins, 2)
            IN  IF Registers_get(regs, reg1) > Registers_get(regs, reg2)
                THEN Return(dest, regs, mmu.data)
                ELSE Return(pc, regs, mmu.data)

instruction_bge ==
    /\ Dispatch("bge")
    /\ IF ~ASSERT_LEN(ins.args, 3) THEN Raise("ParseException")
       ELSE LET reg1 == get_reg(ins, 0)
                reg2 == get_reg(ins, 1)
                dest == get_imm(ins, 2)
            IN  IF Registers_get(regs, reg1) >= Registers_get(regs, reg2)
                THEN Return(dest, regs, mmu.data)
                ELSE Return(pc, regs, mmu.data)

\* helpers.to_unsigned applied to a register REFERENCE (lines 317-318,
\* 325-326): a name is a str, which is no number, and the call raises
\* Python's TypeError; an index is a non-negative number and is returned
\* as it is.
to_unsigned_raises(operand) == operand.k = "reg"

instruction_bltu ==
    /\ Dispatch("bltu")
    /\ IF ~ASSERT_LEN(ins.args, 3) THEN Raise("ParseException")
       ELSE IF to_unsigned_raises(ins.args[1]) \/ to_unsigned_raises(ins.args[2])
       THEN Raise("TypeError")
       ELSE LET reg1 == get_reg(ins, 0)
                reg2 == get_reg(ins, 1)
                dest == get_imm(ins, 2)
            IN  IF Registers_get(regs, reg1) < Registers_get(regs, reg2)
                THEN Return(dest, regs, mmu.data)
                ELSE Return(pc, regs, mmu.data)

instruction_bgeu ==
    /\ Dispatch("bgeu")
    /\ IF ~ASSERT_LEN(ins.args, 3) THEN Raise("ParseException")
       ELSE IF to_unsigned_raises(ins.args[1]) \/ to_unsigned_raises(ins.args[2])
       THEN Raise("TypeError")
       ELSE LET reg1 == get_reg(ins, 0)
                reg2 == get_reg(ins, 1)
                dest == get_imm(ins, 2)
            IN  IF Registers_get(regs, reg1) >= Registers_get(regs, reg2)
                THEN Return(dest, regs, mmu.data)
                ELSE Return(pc, regs, mmu.data)

----------------------------------------------------------------------------
(* Jumps                                                                   *)

instruction_j ==
    /\ Dispatch("j")
    /\ IF ~ASSERT_LEN(ins.args, 1) THEN Raise("ParseException")
       ELSE LET addr == get_imm(ins, 0)
            IN  Return(addr, regs, mmu.data)

\* jal that links the address of the jump itself.
instruction_jal_links_itself ==
    /\ Dispatch("jal")
    /\ IF Len(ins.args) = 1
       THEN LET reg == "ra"
                addr == get_imm(ins, 0)
            IN  Return(addr, Registers_set(regs, reg, PyInt(pc - 1)), mmu.data)
       ELSE IF ~ASSERT_LEN(ins.args, 2) THEN Raise("ParseException")
       ELSE LET reg == get_reg(ins, 0)
                addr == get_imm(ins, 1)
            IN  Return(addr, Registers_set(regs, reg, PyInt(pc - 1)), mmu.data)

instruction_jal ==
    /\ Dispatch("jal")
    /\ IF Len(ins.args) = 1
       THEN LET reg == "ra"
                addr == get_imm(ins, 0)
            IN  Return(addr, Registers_set(regs, reg, PyInt(pc)), mmu.data)
       ELSE IF ~ASSERT_LEN(ins.args, 2) THEN Raise("ParseException")
       ELSE LET reg == get_reg(ins, 0)
                addr == get_imm(ins, 1)
            IN  Return(addr, Registers_set(regs, reg, PyInt(pc)), mmu.data)

\* jalr that links and jumps before it validates the operand count.
instruction_jalr_links_first ==
    /\ Dispatch("jalr")
    /\ IF ~ASSERT_LEN(ins.args, 2)
       THEN /\ Len(ins.args) >= 1
            /\ regs' = Registers_set(regs, get_reg(ins, 0), PyInt(pc))
            /\ ex' = Exception("ParseException", mmu.ins_addr, ins)
            /\ at' = "except"
            /\ UNCHANGED <<pc, cycle, exit, exit_code, conf, cls, ins, le, mmu, stdout, debug_sessions>>
       ELSE LET reg == get_reg(ins, 0)
                addr == get_imm(ins, 1)
            IN  Return(addr, Registers_set(regs, reg, PyInt(pc)), mmu.data)

instruction_jalr ==
    /\ Dispatch("jalr")
    /\ IF ~ASSERT_LEN(ins.args, 2) THEN Raise("ParseException")
       ELSE LET reg == get_reg(ins, 0)
                addr == get_imm(ins, 1)
            IN  Return(addr, Registers_set(regs, reg, PyInt(pc)), mmu.data)

instruction_ret ==
    /\ Dispatch("ret")
    /\ IF ~ASSERT_LEN(ins.args, 0) THEN Raise("ParseException")
       ELSE Return(Registers_get(regs, "ra"), regs, mmu.data)

----------------------------------------------------------------------------
(* System                                                                  *)

\* SyscallInterface.handle_syscall(syscall): the handler's effect
handle_syscall ==
    \E o \in SyscallOutcomes :
        CASE o.kind = "exit" ->
                /\ exit' = TRUE
                /\ exit_code' = o.value
                /\ at' = "while"
                /\ UNCHANGED <<pc, cycle, conf, cls, regs, ins, ex, le, mmu, stdout, debug_sessions>>
          [] o.kind = "code" ->
                /\ exit_code' = o.value
                /\ at' = "while"
                /\ UNCHANGED <<pc, cycle, exit, conf, cls, regs, ins, ex, le, mmu, stdout, debug_sessions>>
          [] o.kind = "result" ->
                Return(pc, Registers_set(regs, "a0", PyInt(o.value)), mmu.data)
          [] o.kind = "raise" ->
                Raise("SyscallException")

\* the body of CPU.__instruction_scall
scall ==
    IF ~ASSERT_LEN(ins.args, 0) THEN Raise("ParseException")
    ELSE handle_syscall

\* debug.launch_debug_session(cpu, mmu, regs, prompt): the session inspects
\* and returns
launch_debug_session ==
    debug_sessions' = debug_sessions + 1

\* A breakpoint that is skipped: no Debug Session.
sbreak_skipped ==
    /\ at' = "while"
    /\ UNCHANGED <<pc, cycle, exit, exit_code, conf, cls, regs, ins, ex, le, mmu, stdout, debug_sessions>>

\* the body of CPU.__instruction_sbreak
sbreak ==
    /\ launch_debug_session
    /\ at' = "while"
    /\ UNCHANGED <<pc, cycle, exit, exit_code, conf, cls, regs, ins, ex, le, mmu, stdout>>

instruction_ecall ==
    /\ Dispatch("ecall")
    /\ scall

instruction_ebreak ==
    /\ Dispatch("ebreak")
    /\ sbreak

instruction_scall ==
    /\ Dispatch("scall")
    /\ scall

instruction_sbreak ==
    /\ Dispatch("sbreak")
    /\ sbreak

instruction_nop ==
    /\ Dispatch("nop")
    /\ Return(pc, regs, mmu.data)

\* all_instructions that cuts one character less off the method name.
all_instructions_short_cut ==
    {SubSeq(method, 18, Len(method)) : method \in {m \in cls : startswith(m, "_CPU__instruction_")}}

\* CPU.all_instructions(): method[18:] of every method of vars(CPU) that
\* starts with _CPU__instruction_
all_instructions ==
    {SubSeq(method, 19, Len(method)) : method \in {m \in cls : startswith(m, "_CPU__instruction_")}}

----------------------------------------------------------------------------
Next ==
    \/ load
    \/ run_loaded
    \/ run_entry
    \/ run_while
    \/ run_fetch
    \/ run_advance
    \/ run_instruction_unknown
    \/ run_except
    \/ run_exited
    \/ instruction_lb
    \/ instruction_lh
    \/ instruction_lw
    \/ instruction_lbu
    \/ instruction_lhu
    \/ instruction_sb
    \/ instruction_sh
    \/ instruction_sw
    \/ instruction_sll
    \/ instruction_slli
    \/ instruction_srl
    \/ instruction_srli
    \/ instruction_sra
    \/ instruction_srai
    \/ instruction_add
    \/ instruction_addi
    \/ instruction_sub
    \/ instruction_lui
    \/ instruction_auipc
    \/ instruction_xor
    \/ instruction_xori
    \/ instruction_or
    \/ instruction_ori
    \/ instruction_and
    \/ instruction_andi
    \/ instruction_slt
    \/ instruction_slti
    \/ instruction_sltu
    \/ instruction_sltiu
    \/ instruction_beq
    \/ instruction_bne
    \/ instruction_blt
    \/ instruction_bge
    \/ instruction_bltu
    \/ instruction_bgeu
    \/ instruction_j
    \/ instruction_jal
    \/ instruction_jalr
    \/ instruction_ret
    \/ instruction_ecall
    \/ instruction_ebreak
    \/ instruction_scall
    \/ instruction_sbreak
    \/ instruction_nop

Spec == Init /\ [][Next]_vars

----------------------------------------------------------------------------
(* The class body edited before the program runs: a method of class CPU is *)
(* added or removed.                                                       *)

\* Mnemonics without a handler in the class as written.
NewMnemonics == UnknownNames \cup {"mul"}

\* Methods that may be added to the body of class CPU: handlers of new
\* mnemonics, and methods that are not handlers.
Definable ==
    {"__instruction_" \o n : n \in NewMnemonics} \cup {"__step", "instruction_div"}

\* How many methods the class may differ by from the class as written.
MaxEdits == 2

Edits(namespace) ==
    Cardinality((namespace \ CPU_vars) \cup (CPU_vars \ namespace))

\* def <name>(self, ...) added to the class body
define_method ==
    \E name \in Definable :
        /\ Mangle(name) \notin cls
        /\ Edits(cls \cup {Mangle(name)}) <= MaxEdits
        /\ cls' = cls \cup {Mangle(name)}
        /\ UNCHANGED <<at, pc, cycle, exit, exit_code, conf, regs, ins, ex, le, mmu, stdout, debug_sessions>>

\* a method removed from the class body
delete_method ==
    \E attribute \in cls :
        /\ Edits(cls \ {attribute}) <= MaxEdits
        /\ cls' = cls \ {attribute}
        /\ UNCHANGED <<at, pc, cycle, exit, exit_code, conf, regs, ins, ex, le, mmu, stdout, debug_sessions>>

ClassNext ==
    \/ define_method
    \/ delete_method

ClassSpec == Init /\ [][ClassNext]_vars

----------------------------------------------------------------------------
(* The claims.                                                             *)

\* The loop is between two iterations, or has ended.
BetweenIterations == at \in {"while", "except", "exited", "done", "crashed"}

\* The fetched instruction has the operand count n and its handler starts.
Executing(names, n) ==
    /\ at = "execute"
    /\ ins.name \in names
    /\ Len(ins.args) = n

(* C1: when the handler of the instruction fetched from address a starts,  *)
(* pc = a + 1, whatever was executed before (branches, jumps, ret).        *)
C1_PcIsNextWhenHandlerStarts ==
    at = "execute" => pc = mmu.ins_addr + 1

\* The second instruction of a run starts executing and was fetched from
\* the entry address again: the first one jumped back to it.
C1_Witness ==
    /\ at = "execute"
    /\ cycle = 2
    /\ mmu.ins_addr = 1
    /\ pc = 2

(* C2 as stated: between iterations and after the loop, the cycle counter  *)
(* equals the number of instructions fetched.                              *)
C2_CycleEqualsFetched ==
    BetweenIterations => cycle = mmu.fetched

\* The run was ended by a memory fault of the fetch itself.
FetchFaulted == ex.type = "MemoryAccessException" /\ ex.ins = None

(* C2 amended: the cycle counter grows by one at a time and, between       *)
(* iterations and after the loop, equals the number of fetches attempted:  *)
(* the instructions fetched, plus one when the fetch itself faulted.  An   *)
(* instruction that faults while executing is counted once.                *)
C2_CycleEqualsFetchAttempts ==
    /\ [](BetweenIterations =>
            cycle = mmu.fetched + (IF FetchFaulted THEN 1 ELSE 0))
    /\ [][cycle' = cycle \/ cycle' = cycle + 1]_vars

\* Two instructions were fetched, the second faulted while executing, and
\* the run has ended with the counter at two.
C2_Witness ==
    /\ at = "done"
    /\ cycle = 2
    /\ mmu.fetched = 2
    /\ ex.type \in RiscemuBaseException
    /\ ex.ins # None

\* The condition of a branch on the register values x and y.
BranchCondition(name, x, y) ==
    CASE name = "beq" -> x = y
      [] name = "bne" -> x # y
      [] name = "blt" -> x < y
      [] name = "bge" -> x >= y

(* C3: beq, bne, blt, bge fetched at a set pc to the target when the       *)
(* condition holds on the two registers and leave it at a + 1 otherwise,   *)
(* change no register and no memory cell, and the next fetch reads from    *)
(* exactly that pc.                                                        *)
C3_Branches ==
    [][/\ Executing(BranchNames, 3) =>
            /\ pc' = IF BranchCondition(ins.name, regs[ins.args[1].r], regs[ins.args[2].r])
                     THEN ins.args[3].i
                     ELSE mmu.ins_addr + 1
            /\ regs' = regs
            /\ mmu'.data = mmu.data
            /\ at' = "while"
       /\ at = "while" => pc' = pc
       /\ (at = "fetch" /\ at' = "advance") => (mmu'.ins_addr = pc /\ pc' = pc)
      ]_vars

\* A taken blt has redirected pc away from the fallthrough address and the
\* loop is about to fetch from the target.
C3_Witness ==
    /\ at = "fetch"
    /\ ins.name = "blt"
    /\ Len(ins.args) = 3
    /\ regs[ins.args[1].r] < regs[ins.args[2].r]
    /\ pc = ins.args[3].i
    /\ pc # mmu.ins_addr + 1
    /\ pc \in CodeAddrs

\* x < y on the unsigned reinterpretation of two words.
UnsignedLess(x, y) == IF (x < 0) = (y < 0) THEN x < y ELSE y < 0

(* C4: bltu and bgeu compare the unsigned reinterpretation of the two      *)
(* register values: bltu sets pc to the target iff x mod 2^32 < y mod 2^32 *)
(* and bgeu iff x mod 2^32 >= y mod 2^32; otherwise pc stays at the        *)
(* fallthrough value.                                                      *)
C4_UnsignedBranches ==
    [][Executing(UnsignedBranchNames, 3) =>
            LET x == regs[ins.args[1].r]
                y == regs[ins.args[2].r]
                taken == IF ins.name = "bltu" THEN UnsignedLess(x, y) ELSE ~UnsignedLess(x, y)
            IN  pc' = IF taken THEN ins.args[3].i ELSE pc
      ]_vars

\* The step writes the register ra: a one-operand jal, or an instruction
\* whose first operand names ra.
WritesRa ==
    /\ at = "execute"
    /\ \/ ins.name = "jal" /\ Len(ins.args) = 1
       \/ Len(ins.args) >= 1 /\ ins.args[1].k = "reg" /\ ins.args[1].r = "ra"

(* C5: a one-operand jal fetched at a writes a + 1 into ra and jumps to    *)
(* its target; ra keeps that value until an instruction writes ra; ret     *)
(* sets pc to the value of ra, and the next fetch reads from that pc.  jal *)
(* with a register and jalr write a + 1 into that register, with the same  *)
(* jump.                                                                   *)
C5_JumpAndLink ==
    [][/\ Executing({"jal"}, 1) =>
            /\ regs' = [regs EXCEPT !["ra"] = mmu.ins_addr + 1]
            /\ pc' = ins.args[1].i
            /\ at' = "while"
       /\ Executing({"jal", "jalr"}, 2) =>
            /\ regs' = [regs EXCEPT ![ins.args[1].r] = mmu.ins_addr + 1]
            /\ pc' = ins.args[2].i
            /\ at' = "while"
       /\ Executing({"ret"}, 0) =>
            /\ pc' = regs["ra"]
            /\ regs' = regs
            /\ at' = "while"
       /\ regs'["ra"] # regs["ra"] => (WritesRa \/ at = "loaded")
       /\ at = "while" => pc' = pc
       /\ (at = "fetch" /\ at' = "advance") => (mmu'.ins_addr = pc /\ pc' = pc)
      ]_vars

\* A jal at the entry address 1 jumped to the last instruction, a ret; the
\* ret has set pc to the link value 2 and the loop is about to fetch there.
C5_Witness ==
    /\ at = "fetch"
    /\ cycle = 3
    /\ ins = Ins("ret", <<>>)
    /\ mmu.ins_addr = CodeTop
    /\ regs["ra"] = 2
    /\ pc = 2

\* A memory fault has been raised in this run.
MemoryFaulted == ex.type = "MemoryAccessException"

(* C6: a memory fault of the fetch or of a load/store never leaves the     *)
(* run: it is caught, nothing is fetched or executed afterwards (cycle,    *)
(* pc, registers and memory stay fixed), and the run ends with the line    *)
(* reporting the exit code last set, 0 when no syscall has set it.         *)
C6_MemoryFaultEndsRun ==
    /\ [](MemoryFaulted =>
            /\ at \in {"except", "exited", "done"}
            /\ at # "done" => ENABLED (run_except \/ run_exited)
            /\ at = "done" =>
                /\ stdout # <<>>
                /\ stdout[Len(stdout)] = ExitedLine(exit_code))
    /\ [][MemoryFaulted => UNCHANGED <<pc, cycle, regs, mmu, exit, exit_code, ins>>]_vars
    /\ [][exit_code' # exit_code => Executing({"ecall", "scall"}, 0)]_vars

\* A load faulted on its data access after a first instruction had run, and
\* the run has ended by reporting the exit code.
C6_Witness ==
    /\ at = "done"
    /\ MemoryFaulted
    /\ ex.ins.name \in {"lb", "lh", "lw", "lbu", "lhu"}
    /\ cycle = 2
    /\ stdout[Len(stdout)] = ExitedLine(0)

(* C7: in every fault report, the pc named is the address whose fetch or   *)
(* execution raised the fault and the instruction named is the one that    *)
(* triggered it (none for a fault of the fetch itself).                    *)
C7_ReportNamesFault ==
    \A k \in DOMAIN stdout :
        stdout[k].kind = "caught" =>
            /\ stdout[k].pc = ex.addr
            /\ stdout[k].ins = ex.ins

\* The fetched instruction has no handler.
UnknownExecuting == at = "execute" /\ ins.name \notin Handlers

(* C8: an instruction whose mnemonic has no handler raises an error that   *)
(* leaves the run: nothing is printed (no fault report, no exit-code       *)
(* line), the Debug Session is not launched even with debug-on-fault set,  *)
(* and nothing runs afterwards.                                            *)
C8_UnknownPropagates ==
    /\ [][UnknownExecuting =>
            /\ at' = "crashed"
            /\ ex'.type = "RuntimeError"
            /\ UNCHANGED <<stdout, debug_sessions, pc, cycle, regs, mmu, exit, exit_code>>]_vars
    /\ [](ex.type = "RuntimeError" =>
            /\ at = "crashed"
            /\ stdout = <<>>
            /\ ~ENABLED Next)

\* An unknown mnemonic has ended a run configured with debug-on-fault.
C8_Witness ==
    /\ at = "crashed"
    /\ ex.type = "RuntimeError"
    /\ ins.name \in UnknownNames
    /\ conf.debug_on_exception
    /\ debug_sessions = 0

(* C9: lui, auipc, xori, ori, andi, slti, sltiu with any operands raise    *)
(* the unimplemented-instruction fault: no register and no memory cell     *)
(* changes, the fault is caught, and no later instruction is executed.     *)
C9_Unimplemented ==
    /\ [][(at = "execute" /\ ins.name \in UnimplementedNames) =>
            /\ at' = "except"
            /\ ex'.type = "UnimplementedInstruction"
            /\ UNCHANGED <<regs, mmu, pc, cycle>>]_vars
    /\ [](ex.type = "UnimplementedInstruction" => at \in {"except", "exited", "done"})
    /\ [][ex.type = "UnimplementedInstruction" => UNCHANGED <<regs, mmu, pc, cycle, ins>>]_vars

\* An xori with three operands, the second instruction of its run, has
\* ended the run through the caught-fault path.
C9_Witness ==
    /\ at = "done"
    /\ ex.type = "UnimplementedInstruction"
    /\ ins.name = "xori"
    /\ Len(ins.args) = 3
    /\ cycle = 2
    /\ Len(stdout) = 3

\* The signed word congruent to a + b modulo 2^32, for words a and b.
WrapSum(a, b) ==
    IF a >= 0 /\ b > MaxInt - a THEN (a + MinInt) + (b + MinInt)
    ELSE IF a < 0 /\ b < MinInt - a THEN (a - MinInt) + (b - MinInt)
    ELSE a + b

\* The signed word congruent to a - b modulo 2^32, for words a and b.
WrapDifference(a, b) ==
    IF b <= 0 /\ a > MaxInt + b THEN (a + MinInt) - (b - MinInt)
    ELSE IF b > 0 /\ a < MinInt + b THEN (a - MinInt) - (b + MinInt)
    ELSE a - b

(* C10: add and addi leave in the destination register the signed word     *)
(* congruent to a + b modulo 2^32 and sub the one congruent to a - b; no   *)
(* fault is raised on overflow, and every register stays a signed word.    *)
C10_WrappingArithmetic ==
    /\ [][/\ Executing({"add"}, 3) =>
                /\ regs' = [regs EXCEPT ![ins.args[1].r] =
                                WrapSum(regs[ins.args[2].r], regs[ins.args[3].r])]
                /\ at' = "while"
          /\ Executing({"addi"}, 3) =>
                /\ regs' = [regs EXCEPT ![ins.args[1].r] =
                                WrapSum(regs[ins.args[2].r], ins.args[3].i)]
                /\ at' = "while"
          /\ Executing({"sub"}, 3) =>
                /\ regs' = [regs EXCEPT ![ins.args[1].r] =
                                WrapDifference(regs[ins.args[2].r], regs[ins.args[3].r])]
                /\ at' = "while"
         ]_vars
    /\ [](\A r \in RegNames : regs[r] >= MinInt /\ regs[r] <= MaxInt)

\* add ra, ra, a0 with a0 = 1 has returned leaving the minimum word in ra:
\* it added 1 to 0x7FFFFFFF.
C10_Witness ==
    /\ at = "while"
    /\ ins = Ins("add", <<R("ra"), R("ra"), R("a0")>>)
    /\ regs["a0"] = 1
    /\ regs["ra"] = MinInt

RegisterShifts == {"sll", "srl", "sra"}

ImmediateShifts == {"slli", "srli", "srai"}

\* The shift amount operand of the shift being executed: the content of the
\* second source register, or the immediate.
ShiftOperand ==
    IF ins.name \in RegisterShifts THEN regs[ins.args[3].r] ELSE ins.args[3].i

RECURSIVE Pow2(_)
Pow2(n) == IF n = 0 THEN 1 ELSE 2 * Pow2(n - 1)

\* The signed word congruent to v * 2^s modulo 2^32: s wrapping doublings.
RECURSIVE LeftShifted(_, _)
LeftShifted(v, s) == IF s = 0 THEN v ELSE LeftShifted(WrapSum(v, v), s - 1)

\* floor(v / 2^s), for s in 0 .. 31.
ArithmeticRightShifted(v, s) == IF s = 31 THEN (IF v < 0 THEN -1 ELSE 0) ELSE v \div Pow2(s)

\* floor((v mod 2^32) / 2^s), for s in 0 .. 31; for s = 0 its signed
\* reinterpretation, v itself.
LogicalRightShifted(v, s) ==
    IF v >= 0 \/ s = 0 THEN ArithmeticRightShifted(v, s)
    ELSE (ArithmeticRightShifted(v, s) + Pow2(31 - s)) + Pow2(31 - s)

\* The result of the shift `name` of the word v by s in 0 .. 31.
Shifted(name, v, s) ==
    CASE name \in {"sll", "slli"} -> LeftShifted(v, s)
      [] name \in {"srl", "srli"} -> LogicalRightShifted(v, s)
      [] name \in {"sra", "srai"} -> ArithmeticRightShifted(v, s)

(* C11: a shift (sll, srl, sra by a register amount; slli, srli, srai by   *)
(* an immediate) depends only on the amount modulo 32: for every amount,   *)
(* negative or above 31 included, the destination receives the result of   *)
(* the shift by amount mod 32, so 33 shifts like 1 and 32 like 0.          *)
C11_ShiftAmountModulo32 ==
    [][Executing(RegisterShifts \cup ImmediateShifts, 3) =>
            /\ regs' = [regs EXCEPT ![ins.args[1].r] =
                            Shifted(ins.name, regs[ins.args[2].r], ShiftOperand % 32)]
            /\ at' = "while"
      ]_vars

\* srli a0, ra, 33 has shifted -1 right by one place.
C11_Witness ==
    /\ at = "while"
    /\ ins = Ins("srli", <<R("a0"), R("ra"), I(33)>>)
    /\ regs["ra"] = -1
    /\ regs["a0"] = MaxInt

(* C12: for a negative word v and an amount s in 1..31, srl/srli yield     *)
(* floor((v + 2^32) / 2^s), which is not negative, and sra/srai yield      *)
(* floor(v / 2^s), which is negative; for v >= 0 both yield floor(v/2^s);  *)
(* sll/slli yield the signed word congruent to v * 2^s modulo 2^32.        *)
C12_LogicalAndArithmeticShifts ==
    [][(Executing(RegisterShifts \cup ImmediateShifts, 3) /\ ShiftOperand \in 1 .. 31) =>
            LET v == regs[ins.args[2].r]
                s == ShiftOperand
                result == regs'[ins.args[1].r]
            IN  /\ ins.name \in {"srl", "srli"} =>
                    IF v < 0
                    THEN /\ result = (ArithmeticRightShifted(v, s) + Pow2(31 - s)) + Pow2(31 - s)
                         /\ result >= 0
                    ELSE result = ArithmeticRightShifted(v, s)
                /\ ins.name \in {"sra", "srai"} =>
                    /\ result = ArithmeticRightShifted(v, s)
                    /\ v < 0 => result < 0
                /\ ins.name \in {"sll", "slli"} =>
                    result = LeftShifted(v, s)
      ]_vars

\* srli a0, ra, 1 on the word with only the sign bit set has given 2^30.
C12_Witness ==
    /\ at = "while"
    /\ ins = Ins("srli", <<R("a0"), R("ra"), I(1)>>)
    /\ regs["ra"] = MinInt
    /\ regs["a0"] = 1073741824

(* C13: slt writes 1 to the destination if a < b as signed words and 0     *)
(* otherwise; sltu writes 1 if a mod 2^32 < b mod 2^32 and 0 otherwise.    *)
(* The value written is 0 or 1, and the signed and the unsigned comparison *)
(* of two register values disagree exactly when their signs differ.        *)
C13_SetLessThan ==
       [][/\ Executing({"slt"}, 3) =>
                /\ regs' = [regs EXCEPT ![ins.args[1].r] =
                                IF regs[ins.args[2].r] < regs[ins.args[3].r] THEN 1 ELSE 0]
                /\ at' = "while"
          /\ Executing({"sltu"}, 3) =>
                /\ regs' = [regs EXCEPT ![ins.args[1].r] =
                                IF UnsignedLess(regs[ins.args[2].r], regs[ins.args[3].r]) THEN 1 ELSE 0]
                /\ at' = "while"
          /\ Executing({"slt", "sltu"}, 3) =>
                LET a == Registers_get(regs, ins.args[2].r)
                    b == Registers_get(regs, ins.args[3].r)
                IN  /\ regs'[ins.args[1].r] \in {0, 1}
                    /\ ((a < b) # PyLess(to_unsigned(PyInt(a)), to_unsigned(PyInt(b))))
                            <=> ((a < 0) # (b < 0))
         ]_vars

\* sltu a0, a0, ra with ra = -1 has written 1: as unsigned words the
\* positive a0 was below ra, as signed words it was not.
C13_Witness ==
    /\ at = "while"
    /\ ins = Ins("sltu", <<R("a0"), R("a0"), R("ra")>>)
    /\ regs["ra"] = -1
    /\ regs["a0"] = 1
    /\ cycle = 2

\* The effective address of the load or store being executed: the base
\* register plus the offset, in either operand form.
EffectiveAddress ==
    regs[ins.args[2].r] + ins.args[IF Len(ins.args) = 3 THEN 3 ELSE 2].i

(* C14: with the byte B at the effective address, lbu writes B to the      *)
(* destination and lb writes B if B < 128 and B - 256 otherwise; with the  *)
(* halfword H there, lhu writes H and lh writes H if H < 32768 and         *)
(* H - 65536 otherwise: on a byte with its high bit set lb gives a         *)
(* negative value and lbu a positive one.                                  *)
C14_SignAndZeroExtension ==
    [][(at = "execute" /\ ins.name \in {"lb", "lbu", "lh", "lhu"} /\ at' = "while") =>
            LET B == mmu.data[EffectiveAddress]
                H == mmu.data[EffectiveAddress] + 256 * mmu.data[EffectiveAddress + 1]
                loaded ==
                    CASE ins.name = "lbu" -> B
                      [] ins.name = "lb" -> IF B < 128 THEN B ELSE B - 256
                      [] ins.name = "lhu" -> H
                      [] ins.name = "lh" -> IF H < 32768 THEN H ELSE H - 65536
            IN  /\ regs' = [regs EXCEPT ![ins.args[1].r] = loaded]
                /\ (ins.name = "lb" /\ B >= 128) => regs'[ins.args[1].r] < 0
                /\ (ins.name = "lbu" /\ B >= 128) => regs'[ins.args[1].r] > 0
      ]_vars

\* lb ra, 0(a0) has loaded the byte 128 as -128.
C14_Witness ==
    /\ at = "while"
    /\ ins = Ins("lb", <<R("ra"), M(0, "a0")>>)
    /\ regs["a0"] \in DataAddrs
    /\ mmu.data[regs["a0"]] = 128
    /\ regs["ra"] = -128

\* The mnemonics an instruction may carry.
Mnemonics == Handlers \cup NewMnemonics

(* C15: the mnemonics all_instructions() enumerates are exactly those      *)
(* __run_instruction dispatches to a handler instead of raising the        *)
(* unknown-instruction error, also after a handler has been added to or    *)
(* removed from the class.                                                 *)
C15_EnumeratedIsDispatchable ==
    /\ \A name \in all_instructions : hasattr("_CPU__instruction_" \o name)
    /\ \A name \in Mnemonics :
            hasattr("_CPU__instruction_" \o name) => name \in all_instructions

\* The handler of fence has been added and the handler of nop removed.
C15_Witness ==
    /\ "fence" \in all_instructions
    /\ "nop" \notin all_instructions
    /\ hasattr("_CPU__instruction_fence")
    /\ ~hasattr("_CPU__instruction_nop")

(* C16: a run started with an entry address <= 0 never executes the loop   *)
(* body: nothing is fetched, cycle keeps its value and pc is not advanced; *)
(* a run started with an entry address > 0 and the exit flag false does    *)
(* not end or reach a handler before a fetch has been attempted.           *)
C16_EntryCheck ==
    /\ (at \notin {"constructed", "loaded"} /\ le.run_ptr <= 0) =>
            /\ at \in {"run", "returned"}
            /\ cycle = 0
            /\ mmu.fetched = 0
            /\ pc = le.run_ptr
            /\ stdout = <<>>
            /\ at = "run" => ENABLED run_entry
    /\ at = "returned" => le.run_ptr <= 0
    /\ (at \notin {"constructed", "loaded"} /\ le.run_ptr > 0) =>
            /\ (at \in {"run", "fetch"} \/ (at = "while" /\ cycle = 0)) =>
                    ENABLED (run_entry \/ run_while \/ run_fetch)
            /\ at \notin {"run", "while", "fetch"} => (mmu.fetched >= 1 \/ FetchFaulted)

\* A run entered at address -1 has returned without an iteration.
C16_Witness ==
    /\ at = "returned"
    /\ le.run_ptr = -1
    /\ pc = -1
    /\ cycle = 0
    /\ mmu.fetched = 0

(* C17: the exit flag is examined only between instructions: the ecall or  *)
(* scall whose syscall sets it completes its iteration, then the loop      *)
(* stops, nothing is fetched any more (cycle and pc stay), and the exit    *)
(* code reported is the one last set; while the flag is false and no fault *)
(* occurs the loop goes on to the next fetch.                              *)
C17_ExitBetweenInstructions ==
    /\ [][exit' # exit =>
            /\ Executing({"ecall", "scall"}, 0)
            /\ exit'
            /\ at' = "while"
            /\ UNCHANGED <<pc, cycle, regs, mmu>>]_vars
    /\ [](exit =>
            /\ at \in {"while", "exited", "done"}
            /\ at # "done" => ENABLED (run_while \/ run_exited)
            /\ at = "done" => stdout = <<ExitedLine(exit_code)>>)
    /\ [][exit => UNCHANGED <<pc, cycle, regs, mmu, ins, exit, exit_code>>]_vars
    /\ [][(at = "while" /\ ~exit) => (at' = "fetch" /\ cycle' = cycle + 1)]_vars
    /\ []((at = "while" /\ ~exit /\ cycle < MaxCycle) => ENABLED run_while)

\* A scall, the second instruction of its run, has set the exit flag with
\* exit code 1, and the run has ended reporting 1.
C17_Witness ==
    /\ at = "done"
    /\ exit
    /\ exit_code = 1
    /\ ins = Ins("scall", <<>>)
    /\ cycle = 2
    /\ pc = mmu.ins_addr + 1
    /\ stdout = <<ExitedLine(1)>>

(* C18: ebreak and sbreak fetched at a launch the Debug Session exactly    *)
(* once and leave pc (a + 1), the registers, memory, the exit flag and the *)
(* exit code as they were, so the next fetch reads from a + 1; nop changes *)
(* nothing at all.                                                         *)
C18_BreakpointsAndNop ==
    [][/\ (at = "execute" /\ ins.name \in {"ebreak", "sbreak"}) =>
            /\ debug_sessions' = debug_sessions + 1
            /\ pc' = mmu.ins_addr + 1
            /\ at' = "while"
            /\ UNCHANGED <<pc, cycle, regs, mmu, exit, exit_code, stdout, ins>>
       /\ (at = "execute" /\ ins.name = "nop") =>
            /\ at' = "while"
            /\ UNCHANGED <<pc, cycle, regs, mmu, exit, exit_code, stdout, ins, debug_sessions>>
       /\ debug_sessions' # debug_sessions =>
            \/ at = "execute" /\ ins.name \in {"ebreak", "sbreak"}
            \/ at = "except"
       /\ at = "while" => pc' = pc
       /\ (at = "fetch" /\ at' = "advance") => (mmu'.ins_addr = pc /\ pc' = pc)
      ]_vars

\* An ebreak fetched at address 1 has launched one Debug Session and the
\* loop is fetching from address 2.
C18_Witness ==
    /\ at = "fetch"
    /\ ins = Ins("ebreak", <<>>)
    /\ debug_sessions = 1
    /\ mmu.ins_addr = 1
    /\ pc = 2
    /\ cycle = 2

\* The operand counts a mnemonic accepts.
AcceptedCounts(name) ==
    CASE name \in {"lb", "lh", "lw", "lbu", "lhu", "sb", "sh", "sw"} -> {2, 3}
      [] name = "jal" -> {1, 2}
      [] name = "j" -> {1}
      [] name \in {"jalr", "lui", "auipc"} -> {2}
      [] name \in {"ret", "ecall", "scall", "ebreak", "sbreak", "nop"} -> {0}
      [] OTHER -> {3}

(* C19: every handler validates the operand count first: an instruction of *)
(* a dispatchable mnemonic (here: one with an implemented handler) whose   *)
(* operand count is not accepted raises the malformed-instruction fault,   *)
(* changes no register, no memory cell and not pc, invokes neither the     *)
(* Syscall Handler nor the Debug Session, and ends the run.                *)
C19_OperandCountValidated ==
    [][(/\ at = "execute"
        /\ ins.name \in Handlers \ UnimplementedNames
        /\ Len(ins.args) \notin AcceptedCounts(ins.name)) =>
            /\ at' = "except"
            /\ ex'.type = "ParseException"
            /\ UNCHANGED <<pc, regs, mmu, exit, exit_code, debug_sessions>>
      ]_vars

\* The faults of an instruction's execution that C20 is about.
ExecutionFaults == {"MemoryAccessException", "ParseException", "UnimplementedInstruction"}

(* C20: an instruction whose execution raises a memory fault, a malformed- *)
(* instruction fault or an unimplemented-instruction fault leaves no       *)
(* effect: to the end of the run every register and memory cell keeps the  *)
(* value it had before the instruction, and pc is the fetch address + 1,   *)
(* not a jump or branch target.                                            *)
C20_NoPartialEffects ==
    /\ [][(at = "execute" /\ at' = "except" /\ ex'.type \in ExecutionFaults) =>
            /\ UNCHANGED <<regs, mmu, pc, cycle, exit, exit_code>>
            /\ ex'.ins = ins
            /\ pc = mmu.ins_addr + 1]_vars
    /\ [][(at \in {"except", "exited", "done"}) => UNCHANGED <<regs, mmu, pc, cycle>>]_vars
    /\ []((at \in {"except", "exited", "done"} /\ ex.type \in ExecutionFaults /\ ex.ins # None) =>
            pc = ex.addr + 1)

\* sw a0, a0, 1 reached across the end of the mapped data: the run has ended
\* with every data byte still 0 and pc just after the store.
C20_Witness ==
    /\ at = "done"
    /\ ex.type = "MemoryAccessException"
    /\ ex.ins = Ins("sw", <<R("a0"), R("a0"), I(1)>>)
    /\ regs["a0"] = DataBase
    /\ \A a \in DataAddrs : mmu.data[a] = 0
    /\ pc = ex.addr + 1

============================================================================
